---- MODULE Spec2Model ----
(***************************************************************************)
(* Model of the conversion driver of ccx2paraview (ccx2paraview/main.py):  *)
(* the command line entry point and Converter.run.  Strings are sequences  *)
(* of one-character strings so that split, replace, slicing and number     *)
(* formatting are computed the way Python computes them.  The parser and   *)
(* the three writers live in other modules of the package; they appear     *)
(* here only through what they are called with and what they leave on      *)
(* disk.                                                                   *)
(***************************************************************************)
EXTENDS Integers, Sequences, FiniteSets, TLC

VARIABLES
    argv,         \* [filename, format]: the command line (args, lines 126-130)
    disk,         \* file system: path -> content
    pc,           \* position of the process in __main__ / Converter.run
    self,         \* the Converter's fields (file_path, file_name, ext, fmt)
    p,            \* the parser's result (node_block, elem_block, result_blocks)
    times,        \* sorted(set(b.value for b in p.result_blocks))
    counter,      \* loop counter of the naming loop
    times_names,  \* insertion-ordered dict {time: file name} as a sequence of pairs
    written,      \* number of entries of times_names already handed to the writer
    calls,        \* this run's calls to collaborators and log output, in order
    run,          \* number of the current invocation of the program
    prevDisk,     \* disk as the previous invocation left it
    prevCalls     \* calls of the previous invocation

vars == <<argv, disk, pc, self, p, times, counter, times_names, written,
          calls, run, prevDisk, prevCalls>>

----------------------------------------------------------------------------
(* Bounds of the model *)

MaxBlocks == 3
MaxTime == 2
ManyTimes == 10
MaxRuns == 2

----------------------------------------------------------------------------
(* Strings *)

Chr(d) == <<"0", "1", "2", "3", "4", "5", "6", "7", "8", "9">>[d + 1]

RECURSIVE Str(_)
Str(n) == IF n < 10 THEN <<Chr(n)>> ELSE Str(n \div 10) \o <<Chr(n % 10)>>

RECURSIVE ZeroPad(_, _)
ZeroPad(s, width) == IF Len(s) >= width THEN s ELSE ZeroPad(<<"0">> \o s, width)

StartsWith(s, old) == Len(s) >= Len(old) /\ SubSeq(s, 1, Len(old)) = old

RECURSIVE Replace(_, _, _)
Replace(s, old, new) ==
    IF s = <<>> THEN <<>>
    ELSE IF StartsWith(s, old)
         THEN new \o Replace(SubSeq(s, Len(old) + 1, Len(s)), old, new)
         ELSE <<Head(s)>> \o Replace(Tail(s), old, new)

RECURSIVE Split(_, _)
Split(s, c) ==
    IF \E i \in 1..Len(s) : s[i] = c
    THEN LET i == CHOOSE k \in 1..Len(s) : s[k] = c /\ \A j \in 1..(k - 1) : s[j] # c
         IN  <<SubSeq(s, 1, i - 1)>> \o Split(SubSeq(s, i + 1, Len(s)), c)
    ELSE <<s>>

DropLast(s, n) == IF Len(s) <= n THEN <<>> ELSE SubSeq(s, 1, Len(s) - n)

LastSlash(s) ==
    IF \E i \in 1..Len(s) : s[i] = "/"
    THEN CHOOSE k \in 1..Len(s) : s[k] = "/" /\ \A j \in (k + 1)..Len(s) : s[j] # "/"
    ELSE 0

Basename(path) == SubSeq(path, LastSlash(path) + 1, Len(path))

Dirname(path) == SubSeq(path, 1, LastSlash(path) - 1)

Join(a, b) == IF a = <<>> THEN b ELSE a \o <<"/">> \o b

DotFrd == <<".", "f", "r", "d">>
DotPvd == <<".", "p", "v", "d">>
Results == <<"r", "e", "s", "u", "l", "t", "s">>
Vtk == <<"v", "t", "k">>
Vtu == <<"v", "t", "u">>
Xyz == <<"x", "y", "z">>

----------------------------------------------------------------------------
(* Values shared by the driver and its collaborators *)

None == -1

Range(f) == {f[i] : i \in DOMAIN f}

RECURSIVE SortedSeq(_)
SortedSeq(S) ==
    IF S = {} THEN <<>>
    ELSE LET m == CHOOSE x \in S : \A y \in S : x <= y
         IN  <<m>> \o SortedSeq(S \ {m})

\* d[k] = v on an insertion-ordered dict
DictSet(d, k, v) ==
    IF \E i \in 1..Len(d) : d[i][1] = k
    THEN [i \in 1..Len(d) |-> IF d[i][1] = k THEN <<k, v>> ELSE d[i]]
    ELSE Append(d, <<k, v>>)

NoData == [node_block |-> FALSE, elem_block |-> FALSE, result_blocks |-> <<>>]

Content(kind, ok, data, t, names) ==
    [kind |-> kind, ok |-> ok, p |-> data, t |-> t, names |-> names]

Event(op, path, t, names) == [op |-> op, path |-> path, t |-> t, names |-> names]

----------------------------------------------------------------------------
(* Collaborators: FRDParser, VTKWriter, VTUWriter, PVDWriter *)

\* FRDParser.Parse fails on a malformed FRD file
ParseRaises(content) == content.kind = "frd" /\ ~content.ok

\* what FRDParser.Parse returns for a file: blocks of an FRD file, nothing for
\* any other content
ParseResult(content) == IF content.kind = "frd" THEN content.p ELSE NoData

\* the file a per-timestep writer leaves: a function of the parsed data and
\* the target time
WriterOutput(kind, data, t) == Content(kind, TRUE, data, t, <<>>)

\* the index file the series writer leaves
IndexOutput(names) == Content("pvd", TRUE, NoData, None, names)

WriteFile(d, path, content) == (path :> content) @@ d

----------------------------------------------------------------------------
(* Converter *)

FormatRecognizedAny(fmt) == TRUE

FormatRecognized(fmt) == fmt \in {Vtk, Vtu}

ConstructorRaises(file_path) == Len(Split(Basename(file_path), ".")) < 2

NewConverter(file_path, fmt) ==
    LET temp == Split(Basename(file_path), ".")
    IN  [file_path |-> file_path, file_name |-> temp[1], ext |-> temp[2], fmt |-> fmt]

NoConverter == [file_path |-> <<>>, file_name |-> <<>>, ext |-> <<>>, fmt |-> <<>>]

output_folder(c) == Join(Dirname(c.file_path), Results)

output_file(c) == Join(output_folder(c), c.file_name \o <<".">> \o c.ext)

RunEntryNoStage == "parse"

\* first statement of Converter.run
RunEntry == "stage"

StagedIfAbsent(d, src, dst) == IF dst \in DOMAIN d THEN d ELSE (dst :> d[src]) @@ d

\* shutil.copy(src, dst)
Staged(d, src, dst) == (dst :> d[src]) @@ d

HasMeshEither(data) == data.node_block \/ data.elem_block

HasMesh(data) == data.node_block /\ data.elem_block

TimeValues(data) == SortedSeq(Range(data.result_blocks))

\* '.{:0{width}}.{}'.format(counter, fmt, width=len(str(l)))  or  '.{}'.format(fmt)
IncrementExt(n, l, fmt) ==
    IF l > 1
    THEN <<".">> \o ZeroPad(Str(n), Len(Str(l))) \o <<".">> \o fmt
    ELSE <<".">> \o fmt

TimedName(c, n, l) == Replace(output_file(c), DotFrd, IncrementExt(n, l, c.fmt))

UntimedName(c) == DropLast(output_file(c), 3) \o c.fmt

PvdName(c) == Replace(output_file(c), DotFrd, DotPvd)

NeedsPVDAnySeries(l, fmt) == l >= 1 /\ fmt = Vtu

NeedsPVD(l, fmt) == l > 1 /\ fmt = Vtu

ParseFailureSwallowed(content) == FALSE

\* an exception of the parser leaves Converter.run (no handler around the call)
ParsePropagates(content) == ParseRaises(content)

----------------------------------------------------------------------------
(* Inputs *)

\* a.frd, m/a.frd, m/a.b.frd, m/job.dat, m/a
FileNames ==
    << <<"a", ".", "f", "r", "d">>,
       <<"m", "/", "a", ".", "f", "r", "d">>,
       <<"m", "/", "a", ".", "b", ".", "f", "r", "d">>,
       <<"m", "/", "j", "o", "b", ".", "d", "a", "t">>,
       <<"m", "/", "a">> >>

Formats == {Vtk, Vtu, Xyz}

\* ManyTimes distinct time values, not in order, the first one repeated
ManyBlocks == [i \in 1..(ManyTimes + 1) |-> (ManyTimes + 1 - i) % ManyTimes]

BlockValues == UNION {[1..n -> 0..MaxTime] : n \in 0..MaxBlocks} \cup {ManyBlocks}

InputData == [node_block : BOOLEAN, elem_block : BOOLEAN, result_blocks : BlockValues]

InputFiles ==
    {Content("frd", TRUE, d, None, <<>>) : d \in InputData}
    \cup {Content("frd", FALSE, d, None, <<>>) :
            d \in [node_block : {TRUE}, elem_block : {TRUE}, result_blocks : {<<>>, <<1, 0>>}]}

----------------------------------------------------------------------------
(* The program *)

Fresh ==
    /\ pc = "main"
    /\ self = NoConverter
    /\ p = NoData
    /\ times = <<>>
    /\ counter = 0
    /\ times_names = <<>>
    /\ written = 0
    /\ calls = <<>>

Init ==
    /\ \E i \in 1..Len(FileNames) : \E fmt \in Formats :
          argv = [filename |-> FileNames[i], format |-> fmt]
    /\ \E f \in InputFiles : disk = (argv.filename :> f)
    /\ Fresh
    /\ run = 1
    /\ prevDisk = disk
    /\ prevCalls = <<>>

\* __main__: the format check
Main ==
    /\ pc = "main"
    /\ IF FormatRecognized(argv.format)
       THEN /\ pc' = "init"
            /\ UNCHANGED calls
       ELSE /\ calls' = Append(calls, Event("print ERROR! Wrong format", argv.format, None, <<>>))
            /\ pc' = "clean"
    /\ UNCHANGED <<argv, disk, self, p, times, counter, times_names, written,
                   run, prevDisk, prevCalls>>

\* Converter.__init__
Construct ==
    /\ pc = "init"
    /\ IF ConstructorRaises(argv.filename)
       THEN /\ pc' = "raised"
            /\ UNCHANGED self
       ELSE /\ self' = NewConverter(argv.filename, argv.format)
            /\ pc' = RunEntry
    /\ UNCHANGED <<argv, disk, p, times, counter, times_names, written, calls,
                   run, prevDisk, prevCalls>>

\* Converter.run: os.makedirs and shutil.copy
Stage ==
    /\ pc = "stage"
    /\ disk' = Staged(disk, self.file_path, output_file(self))
    /\ calls' = Append(calls, Event("copy", output_file(self), None, <<>>))
    /\ pc' = "parse"
    /\ UNCHANGED <<argv, self, p, times, counter, times_names, written,
                   run, prevDisk, prevCalls>>

\* Converter.run: p = FRDParser.Parse(self.output_file)
Parse ==
    /\ pc = "parse"
    /\ calls' = Append(calls, Event("Parse", output_file(self), None, <<>>))
    /\ IF output_file(self) \notin DOMAIN disk
       THEN /\ pc' = "raised"
            /\ UNCHANGED p
       ELSE IF ParsePropagates(disk[output_file(self)])
       THEN /\ pc' = "raised"
            /\ UNCHANGED p
       ELSE /\ p' = ParseResult(disk[output_file(self)])
            /\ pc' = "branch"
    /\ UNCHANGED <<argv, disk, self, times, counter, times_names, written,
                   run, prevDisk, prevCalls>>

\* Converter.run: the mesh test, the time values, and the two warnings
Branch ==
    /\ pc = "branch"
    /\ IF HasMesh(p)
       THEN /\ times' = TimeValues(p)
            /\ IF Len(times') > 0
               THEN /\ counter' = 1
                    /\ times_names' = <<>>
                    /\ pc' = "names"
                    /\ UNCHANGED calls
               ELSE /\ calls' = Append(calls, Event("warning No time increments!", <<>>, None, <<>>))
                    /\ pc' = "untimed"
                    /\ UNCHANGED <<counter, times_names>>
       ELSE /\ calls' = Append(calls, Event("warning File is empty!", <<>>, None, <<>>))
            /\ pc' = "clean"
            /\ UNCHANGED <<times, counter, times_names>>
    /\ UNCHANGED <<argv, disk, self, p, written, run, prevDisk, prevCalls>>

\* Converter.run: one iteration of the naming loop
BuildName ==
    /\ pc = "names"
    /\ LET l == Len(times)
           t == SortedSeq(Range(times))[counter]
       IN  /\ times_names' = DictSet(times_names, t, TimedName(self, counter, l))
           /\ counter' = counter + 1
           /\ pc' = IF counter = l THEN "write" ELSE "names"
    /\ UNCHANGED <<argv, disk, self, p, times, written, calls, run, prevDisk, prevCalls>>

\* the writer call selected by self.fmt, if any
WriterCall(d, c, fmt, data, file_name, t) ==
    IF fmt = Vtk
    THEN <<WriteFile(d, file_name, WriterOutput("vtk", data, t)),
           Append(c, Event("writeVTK", file_name, t, <<>>))>>
    ELSE IF fmt = Vtu
    THEN <<WriteFile(d, file_name, WriterOutput("vtu", data, t)),
           Append(c, Event("writeVTU", file_name, t, <<>>))>>
    ELSE <<d, c>>

\* Converter.run: one iteration of the writing loop
WriteNext ==
    /\ pc = "write"
    /\ LET item == times_names[written + 1]
           done == WriterCall(disk, calls, self.fmt, p, item[2], item[1])
       IN  /\ disk' = done[1]
           /\ calls' = done[2]
    /\ written' = written + 1
    /\ pc' = IF written' = Len(times_names) THEN "pvd" ELSE "write"
    /\ UNCHANGED <<argv, self, p, times, counter, times_names, run, prevDisk, prevCalls>>

\* Converter.run: the series index
SeriesIndex ==
    /\ pc = "pvd"
    /\ IF NeedsPVD(Len(times), self.fmt)
       THEN /\ disk' = WriteFile(disk, PvdName(self), IndexOutput(times_names))
            /\ calls' = Append(calls, Event("writePVD", PvdName(self), None, times_names))
       ELSE UNCHANGED <<disk, calls>>
    /\ pc' = "clean"
    /\ UNCHANGED <<argv, self, p, times, counter, times_names, written,
                   run, prevDisk, prevCalls>>

\* Converter.run: the single untimed output
WriteUntimed ==
    /\ pc = "untimed"
    /\ LET done == WriterCall(disk, calls, self.fmt, p, UntimedName(self), None)
       IN  /\ disk' = done[1]
           /\ calls' = done[2]
    /\ pc' = "clean"
    /\ UNCHANGED <<argv, self, p, times, counter, times_names, written,
                   run, prevDisk, prevCalls>>

\* __main__: clean.cache()
Clean ==
    /\ pc = "clean"
    /\ calls' = Append(calls, Event("clean.cache", <<>>, None, <<>>))
    /\ pc' = "exit"
    /\ UNCHANGED <<argv, disk, self, p, times, counter, times_names, written,
                   run, prevDisk, prevCalls>>

Ended == pc \in {"exit", "raised"}

\* the same command line is run again on the disk the last run left
Rerun ==
    /\ Ended
    /\ run < MaxRuns
    /\ run' = run + 1
    /\ prevDisk' = disk
    /\ prevCalls' = calls
    /\ pc' = "main"
    /\ self' = NoConverter
    /\ p' = NoData
    /\ times' = <<>>
    /\ counter' = 0
    /\ times_names' = <<>>
    /\ written' = 0
    /\ calls' = <<>>
    /\ UNCHANGED <<argv, disk>>

Next ==
    \/ Main
    \/ Construct
    \/ Stage
    \/ Parse
    \/ Branch
    \/ BuildName
    \/ WriteNext
    \/ SeriesIndex
    \/ WriteUntimed
    \/ Clean
    \/ Rerun

Spec == Init /\ [][Next]_vars

----------------------------------------------------------------------------
(* Vocabulary of the properties *)

\* the input file as the command line names it; no run writes to this path
Input == disk[argv.filename]

InputValues == Range(Input.p.result_blocks)

InputHasMesh == Input.p.node_block /\ Input.p.elem_block

FormatIsKnown == argv.format = Vtk \/ argv.format = Vtu

IsWriter(e) == e.op = "writeVTK" \/ e.op = "writeVTU"

IsPVD(e) == e.op = "writePVD"

IsParse(e) == e.op = "Parse"

IsCopy(e) == e.op = "copy"

WriterCallsOf(c) == SelectSeq(c, IsWriter)

WriterCalls == WriterCallsOf(calls)

PVDCalls == SelectSeq(calls, IsPVD)

ParseCalls == SelectSeq(calls, IsParse)

CopyCalls == SelectSeq(calls, IsCopy)

Logged(op) == \E i \in 1..Len(calls) : calls[i].op = op

MatchingWriter == IF argv.format = Vtk THEN "writeVTK" ELSE "writeVTU"

\* Converter.run was entered and has returned to __main__
RunReturned == pc \in {"clean", "exit"} /\ Logged("copy")

EndsWith(s, suffix) ==
    Len(s) >= Len(suffix) /\ SubSeq(s, Len(s) - Len(suffix) + 1, Len(s)) = suffix

\* the k-th smallest of a set of time values
KthSmallest(S, k) == SortedSeq(S)[k]

\* the input's file name without its directory and without its last extension
LastDot(s) ==
    IF \E i \in 1..Len(s) : s[i] = "."
    THEN CHOOSE k \in 1..Len(s) : s[k] = "." /\ \A j \in (k + 1)..Len(s) : s[j] # "."
    ELSE Len(s) + 1

InputStem == SubSeq(Basename(argv.filename), 1, LastDot(Basename(argv.filename)) - 1)

OutputDir == Join(Dirname(argv.filename), Results)

StagedCopy == output_file(NewConverter(argv.filename, argv.format))

----------------------------------------------------------------------------
(* C1 *)

\* C1: a returned run with a recognized format on an input with a mesh and
\* N >= 1 distinct time values has invoked the matching writer, and only it,
\* exactly once per distinct time value, each time on a file name of its own,
\* so that N output files exist.
C1_OneFilePerTimeValue ==
    (RunReturned /\ FormatIsKnown /\ InputHasMesh /\ InputValues # {}) =>
        LET w == WriterCalls
            N == Cardinality(InputValues)
        IN  /\ Len(w) = N
            /\ \A i \in 1..Len(w) : w[i].op = MatchingWriter
            /\ {w[i].t : i \in 1..Len(w)} = InputValues
            /\ \A i, j \in 1..Len(w) : i # j => w[i].path # w[j].path
            /\ Cardinality({w[i].path : i \in 1..Len(w)}) = N

----------------------------------------------------------------------------
(* C2 *)

\* C2: for N > 1 distinct time values the k-th writer call has the k-th
\* smallest time as target and a file name that is the input's name with its
\* extension replaced by "." increment k zero-padded to the digits of N "."
\* format; for N = 1 the name is the input's name with the format extension.
C2_PaddedIncrementNames ==
    (RunReturned /\ FormatIsKnown /\ InputHasMesh /\ InputValues # {}) =>
        LET w == WriterCalls
            N == Cardinality(InputValues)
        IN  /\ Len(w) = N
            /\ \A k \in 1..Len(w) :
                 /\ w[k].t = KthSmallest(InputValues, k)
                 /\ w[k].path = Join(OutputDir,
                        InputStem \o
                        (IF N > 1 THEN <<".">> \o ZeroPad(Str(k), Len(Str(N))) ELSE <<>>)
                        \o <<".">> \o argv.format)

----------------------------------------------------------------------------
(* C4 *)

\* C4: a returned run on an input with a mesh and no result blocks has made
\* exactly one writer call, to the matching writer, with None as target and
\* the input's name with its extension replaced by the format as file name,
\* and no series index call.
C4_SingleUntimedOutput ==
    (RunReturned /\ FormatIsKnown /\ InputHasMesh /\ InputValues = {}) =>
        /\ Len(WriterCalls) = 1
        /\ WriterCalls[1].op = MatchingWriter
        /\ WriterCalls[1].t = None
        /\ WriterCalls[1].path = Join(OutputDir, InputStem \o <<".">> \o argv.format)
        /\ PVDCalls = <<>>

----------------------------------------------------------------------------
(* C10 *)

\* C10: no path handed to a per-timestep writer or to the series index writer
\* is the path of the staged copy of the input.
C10_StagedCopyNeverAnOutput ==
    \A i \in 1..Len(calls) :
        (IsWriter(calls[i]) \/ IsPVD(calls[i])) => calls[i].path # output_file(self)

----------------------------------------------------------------------------
(* C3 *)

\* C3: the series index writer is called at most once; a call happens only
\* for an input with a mesh, more than one distinct time value and format vtu,
\* only after all N per-timestep writer calls, and with the N (time, file name)
\* pairs of those calls in ascending time order; and a returned run on such an
\* input has made the call.
C3_SeriesIndexOnlyForVtuSeries ==
    LET w == WriterCalls
        N == Cardinality(InputValues)
    IN  /\ Len(PVDCalls) <= 1
        /\ PVDCalls # <<>> =>
             /\ InputHasMesh /\ N > 1 /\ argv.format = Vtu
             /\ \A i, j \in 1..Len(calls) :
                  (IsPVD(calls[i]) /\ IsWriter(calls[j])) => j < i
             /\ Len(w) = N
             /\ {w[k].t : k \in 1..Len(w)} = InputValues
             /\ \A k \in 1..(Len(w) - 1) : w[k].t < w[k + 1].t
             /\ PVDCalls[1].names = [k \in 1..Len(w) |-> <<w[k].t, w[k].path>>]
        /\ (RunReturned /\ InputHasMesh /\ N > 1 /\ argv.format = Vtu) =>
             Len(PVDCalls) = 1

C3_Witness ==
    /\ pc = "exit"
    /\ Len(PVDCalls) = 1
    /\ Input.p.result_blocks = ManyBlocks
    /\ Len(WriterCalls) = ManyTimes

----------------------------------------------------------------------------
(* C5 *)

\* C5: for an input without a node block or without an element block no
\* writer and no series index writer is ever called and no file other than
\* copies of the input exists, whatever result blocks the parser returned;
\* the run does not end in an exception, and once it has returned the
\* warning "File is empty!" has been logged.
C5_EmptyMeshNoOutput ==
    ~InputHasMesh =>
        /\ WriterCalls = <<>>
        /\ PVDCalls = <<>>
        /\ \A path \in DOMAIN disk : disk[path] = Input
        /\ Logged("copy") => pc # "raised"
        /\ RunReturned => Logged("warning File is empty!")

C5_Witness ==
    /\ pc = "exit"
    /\ Input.p.node_block
    /\ ~Input.p.elem_block
    /\ Input.p.result_blocks = ManyBlocks
    /\ FormatIsKnown
    /\ Logged("warning File is empty!")

----------------------------------------------------------------------------
(* C6 *)

\* C6: with a format other than vtk and vtu nothing but the error message and
\* the cache cleanup happens: no Converter is built, nothing is copied, parsed
\* or written, and the message is printed before the program exits.
C6_UnknownFormatRejected ==
    ~FormatIsKnown =>
        /\ \A i \in 1..Len(calls) :
             calls[i].op \in {"print ERROR! Wrong format", "clean.cache"}
        /\ self = NoConverter
        /\ DOMAIN disk = {argv.filename}
        /\ pc \in {"clean", "exit"} => Logged("print ERROR! Wrong format")
        /\ pc # "raised"

C6_Witness ==
    /\ pc = "exit"
    /\ argv.format = Xyz
    /\ Logged("print ERROR! Wrong format")
    /\ InputHasMesh
    /\ InputValues # {}

----------------------------------------------------------------------------
(* C7 *)

\* a file as a writer leaves it when it has run to its end on the input's data
WholeOutput(f) ==
    \/ \E t \in InputValues \cup {None} :
          f = WriterOutput("vtk", Input.p, t) \/ f = WriterOutput("vtu", Input.p, t)
    \/ /\ f = IndexOutput(f.names)
       /\ Len(f.names) = Cardinality(InputValues)

\* C7: when the parser fails on the input, the call to it is the last thing
\* the run does: the exception leaves the program, no writer and no series
\* index writer is called, and no file other than copies of the input exists;
\* and for every input, at every point of a run, every file on disk is a copy
\* of the input or a whole output.
C7_ParseFailureAborts ==
    /\ ~Input.ok =>
          /\ WriterCalls = <<>>
          /\ PVDCalls = <<>>
          /\ ParseCalls # <<>> => (pc = "raised" /\ IsParse(calls[Len(calls)]))
          /\ \A path \in DOMAIN disk : disk[path] = Input
    /\ \A path \in DOMAIN disk : disk[path] = Input \/ WholeOutput(disk[path])

C7_Witness ==
    /\ pc = "raised"
    /\ ~Input.ok
    /\ FormatIsKnown
    /\ Len(ParseCalls) = 1
    /\ InputValues # {}

----------------------------------------------------------------------------
(* C8 *)

\* C8: when the same command line has been run again, the disk holds the same
\* files with the same contents as after the run before, and the run made the
\* same calls.
C8_SecondRunChangesNothing ==
    (run > 1 /\ Ended) => (disk = prevDisk /\ calls = prevCalls)

C8_Witness ==
    /\ run > 1
    /\ pc = "exit"
    /\ Len(WriterCalls) > 1
    /\ Len(PVDCalls) = 1
    /\ Cardinality(DOMAIN disk) > 3

----------------------------------------------------------------------------
(* C9 *)

\* C9: in every run the copy into the output folder comes first, the parser
\* call second and on the copy, every writer call after both, the series
\* index call after every writer call; the parser is called at most once, and
\* exactly once in a run that has ended.
C9_StageParseWriteIndexOrder ==
    /\ Len(ParseCalls) <= 1
    /\ Len(CopyCalls) <= 1
    /\ \A i \in 1..Len(calls) :
         IsParse(calls[i]) =>
            (i = 2 /\ IsCopy(calls[1]) /\ calls[1].path = calls[i].path)
    /\ \A i \in 1..Len(calls) :
         (IsWriter(calls[i]) \/ IsPVD(calls[i])) =>
            (i > 2 /\ IsCopy(calls[1]) /\ IsParse(calls[2]))
    /\ \A i, j \in 1..Len(calls) :
         (IsPVD(calls[i]) /\ IsWriter(calls[j])) => j < i
    /\ (Ended /\ self # NoConverter) => Len(ParseCalls) = 1

C9_Witness ==
    /\ pc = "exit"
    /\ Len(CopyCalls) = 1
    /\ Len(ParseCalls) = 1
    /\ Len(WriterCalls) = 2
    /\ Len(PVDCalls) = 1

====
